---------------------------- MODULE Spec2Model ----------------------------
(***************************************************************************)
(* Clothing Business Management API (src/main.py): a FastAPI service over  *)
(* one SQLite file.  The model holds the committed store (eight tables),   *)
(* the in-flight update_stock transactions with SQLite's writer lock, and  *)
(* the last request with its response, and a record of what the requests  *)
(* so far have taken out of the store.                                     *)
(*                                                                         *)
(* FastAPI validates a request's body and query parameters against the     *)
(* pydantic models before a handler runs; the inputs enumerated here are   *)
(* values that pass that validation.                                       *)
(***************************************************************************)
EXTENDS Integers, Sequences, FiniteSets, TLC

VARIABLES db, writer, proc, last, past

vars == <<db, writer, proc, last, past>>

-----------------------------------------------------------------------------
(* Bounds of the model *)

MaxEmployees == 2       \* rows ever inserted into Employees
MaxCustomers == 2       \* rows ever inserted into Customers
MaxInserts == 1         \* rows ever inserted into the by-id tables together
MaxAdjustments == 2     \* update_stock requests started and not failed
MaxListRows == 25       \* rows per table in the listing specification
MaxRound == 2           \* rows ever inserted into the one table that SpecRound exercises
MaxStocked == 1         \* rows ever inserted into Products, and into InventoryLog, in SpecStocked

(* Program constants *)

LimitMax == 100         \* Query(10, ge=1, le=100)

-----------------------------------------------------------------------------
(* Small helpers *)

Min(S) == CHOOSE x \in S : \A y \in S : x <= y

Max(S) == CHOOSE x \in S : \A y \in S : x >= y

RECURSIVE SumSeq(_)
SumSeq(s) == IF s = <<>> THEN 0 ELSE Head(s) + SumSeq(Tail(s))

-----------------------------------------------------------------------------
(* The store: CREATE TABLE ... INTEGER PRIMARY KEY AUTOINCREMENT.  A table *)
(* is its rows by primary key and sqlite_sequence's counter, the largest   *)
(* key ever assigned; a row is a record of its columns.                    *)

Tables == {"Customers", "Products", "Orders", "OrderDetails", "Employees",
           "Shipping", "InventoryLog", "Payments"}

EmptyTable == [rows |-> <<>>, seq |-> 0]

Ids(t) == DOMAIN t.rows

\* The column holding a table's primary key, set on a row.
SetKey(tbl, row, id) ==
    CASE tbl = "Customers"    -> [row EXCEPT !.CustomerID = id]
      [] tbl = "Products"     -> [row EXCEPT !.ProductID = id]
      [] tbl = "Orders"       -> [row EXCEPT !.OrderID = id]
      [] tbl = "OrderDetails" -> [row EXCEPT !.OrderDetailID = id]
      [] tbl = "Employees"    -> [row EXCEPT !.EmployeeID = id]
      [] tbl = "Shipping"     -> [row EXCEPT !.ShippingID = id]
      [] tbl = "InventoryLog" -> [row EXCEPT !.LogID = id]
      [] tbl = "Payments"     -> [row EXCEPT !.PaymentID = id]

\* Faulty variant: a key without AUTOINCREMENT, one more than the largest key
\* in the table.
SqlInsertMaxRowid(store, tbl, row) ==
    LET id == IF Ids(store[tbl]) = {} THEN 1
              ELSE (CHOOSE m \in Ids(store[tbl]) :
                       \A k \in Ids(store[tbl]) : k <= m) + 1
    IN  [store EXCEPT ![tbl] =
            [rows |-> [i \in Ids(store[tbl]) \cup {id} |->
                          IF i = id THEN SetKey(tbl, row, id)
                          ELSE store[tbl].rows[i]],
             seq |-> IF id > store[tbl].seq THEN id ELSE store[tbl].seq]]

\* INSERT INTO tbl (...) VALUES (...): the key is one more than the counter.
SqlInsert(store, tbl, row) ==
    LET id == store[tbl].seq + 1
    IN  [store EXCEPT ![tbl] =
            [rows |-> [i \in Ids(store[tbl]) \cup {id} |->
                          IF i = id THEN SetKey(tbl, row, id)
                          ELSE store[tbl].rows[i]],
             seq |-> id]]

\* UPDATE tbl SET <every column> WHERE <key> = id
SqlUpdate(store, tbl, id, row) ==
    IF id \in Ids(store[tbl])
    THEN [store EXCEPT ![tbl].rows[id] = SetKey(tbl, row, id)]
    ELSE store

\* DELETE FROM tbl WHERE <key> = id
SqlDelete(store, tbl, id) ==
    [store EXCEPT ![tbl].rows =
        [i \in Ids(store[tbl]) \ {id} |-> store[tbl].rows[i]]]

\* cursor.rowcount of an UPDATE or DELETE ... WHERE <key> = id
RowCount(store, tbl, id) == IF id \in Ids(store[tbl]) THEN 1 ELSE 0

\* SELECT * FROM tbl: the rows in key order.
SqlSelectAll(store, tbl) ==
    LET ids == SelectSeq([i \in 1..store[tbl].seq |-> i],
                         LAMBDA i : i \in Ids(store[tbl]))
    IN  [i \in 1..Len(ids) |-> store[tbl].rows[ids[i]]]

\* Email TEXT NOT NULL UNIQUE (Customers, Employees)
EmailTaken(store, tbl, email) ==
    \E i \in Ids(store[tbl]) : store[tbl].rows[i].Email = email

-----------------------------------------------------------------------------
(* Responses: the store the request leaves committed, the HTTP status, the *)
(* detail of an HTTPException, the rows of a JSON body, and whether the    *)
(* handler has called conn.close() on the connection it opened.            *)

Response(store, status, detail, body) ==
    [db |-> store, status |-> status, detail |-> detail, body |-> body,
     conn |-> "closed"]

Ok(store, body) == Response(store, 200, "", body)

\* raise HTTPException(status_code, detail)
HttpError(store, status, detail) == Response(store, status, detail, <<>>)

\* An exception that cursor.execute raises and the handler does not catch:
\* the framework answers 500, and the handler's conn.close() is never
\* reached.
Unhandled(store, what) ==
    [Response(store, 500, what, <<>>) EXCEPT !.conn = "open"]

-----------------------------------------------------------------------------
(* authenticate *)

\* Stands for a password with a character outside ASCII, such as an umlaut.
NonAsciiPassword == "non-ascii-password"

IsAscii(s) == s # NonAsciiPassword

\* secrets.compare_digest on two str: TypeError unless both are ASCII.
compare_digest(a, b) ==
    IF IsAscii(a) /\ IsAscii(b)
    THEN IF a = b THEN "equal" ELSE "different"
    ELSE "TypeError"

\* SELECT * FROM Employees WHERE Email = ? ... fetchone()
EmployeeByEmail(store, email) ==
    SelectSeq(SqlSelectAll(store, "Employees"), LAMBDA e : e.Email = email)

authenticate(store, credentials) ==
    LET found == EmployeeByEmail(store, credentials.username)
    IN  IF found = <<>>
        THEN [status |-> 401, detail |-> "Invalid credentials", employee |-> <<>>]
        ELSE LET cmp == compare_digest(found[1].Password, credentials.password)
             IN  CASE cmp = "equal" ->
                        [status |-> 200, detail |-> "", employee |-> <<found[1]>>]
                   [] cmp = "different" ->
                        [status |-> 401, detail |-> "Invalid credentials",
                         employee |-> <<>>]
                   [] cmp = "TypeError" ->
                        [status |-> 500, detail |-> "TypeError", employee |-> <<>>]

\* employee: dict = Depends(authenticate): the handler's result stands only
\* when authenticate returns an employee; otherwise the request ends with
\* authenticate's error and the handler never runs.
Depends(store, credentials, result) ==
    LET a == authenticate(store, credentials)
    IN  IF a.status = 200 THEN result
        ELSE HttpError(store, a.status, a.detail)

\* The dict authenticate returns to the handler.
CurrentEmployee(store, credentials) ==
    authenticate(store, credentials).employee[1]

-----------------------------------------------------------------------------
(* Inputs *)

AdminEmail == "admin@example.com"
StaffEmail == "staff@example.com"

Roles == {"Admin", "Manager", "Staff"}

\* HTTP Basic credentials reach the handler as ASCII text.
Credentials ==
    { [username |-> AdminEmail, password |-> "adminpassword"],
      [username |-> AdminEmail, password |-> "staffpassword"],
      [username |-> StaffEmail, password |-> "staffpassword"],
      [username |-> "nobody@example.com", password |-> "adminpassword"] }

\* The row create_default_admin inserts.
DefaultAdmin ==
    [EmployeeID |-> 0, FirstName |-> "Admin", LastName |-> "User",
     Email |-> AdminEmail, Password |-> "adminpassword", Role |-> "Admin"]

EmployeeInputs ==
    { [EmployeeID |-> 0, FirstName |-> "Sam", LastName |-> "Staff",
       Email |-> StaffEmail, Password |-> "staffpassword", Role |-> "Staff"],
      [EmployeeID |-> 0, FirstName |-> "Sam", LastName |-> "Staff",
       Email |-> StaffEmail, Password |-> NonAsciiPassword, Role |-> "Manager"],
      [EmployeeID |-> 0, FirstName |-> "Admin", LastName |-> "User",
       Email |-> AdminEmail, Password |-> "adminpassword", Role |-> "Staff"] }

\* Text that LIKE matches is a sequence of characters.
Ann == <<"A", "n", "n">>
Hat == <<"H", "a", "t">>
Tee == <<"T", "e", "e">>
Wool == <<"w", "o", "o", "l">>
Bob == <<"B", "o", "b">>
Lee == <<"L", "e", "e">>

CustomerInputs ==
    { [CustomerID |-> 0, FirstName |-> Ann, LastName |-> Lee,
       Email |-> <<"a", "@", "x">>, PhoneNumber |-> "+15550000001"],
      [CustomerID |-> 0, FirstName |-> Bob, LastName |-> Lee,
       Email |-> <<"b", "@", "x">>, PhoneNumber |-> "+15550000002"],
      [CustomerID |-> 7, FirstName |-> Bob, LastName |-> Ann,
       Email |-> <<"a", "@", "x">>, PhoneNumber |-> "+15550000003"] }

-----------------------------------------------------------------------------
(* Startup: create_tables() then create_default_admin() on a fresh file *)

create_tables == [t \in Tables |-> EmptyTable]

\* No Admin row exists in the empty tables: the default admin is inserted.
FreshStore == SqlInsert(create_tables, "Employees", DefaultAdmin)

-----------------------------------------------------------------------------
(* Customers and employees *)

create_customer(store, customer) ==
    IF EmailTaken(store, "Customers", customer.Email)
    THEN HttpError(store, 400, "Email already exists")
    ELSE LET s2 == SqlInsert(store, "Customers", customer)
         IN  Ok(s2, <<s2["Customers"].rows[s2["Customers"].seq]>>)

create_employee(store, employee) ==
    IF EmailTaken(store, "Employees", employee.Email)
    THEN Unhandled(store, "IntegrityError")
    ELSE LET s2 == SqlInsert(store, "Employees", employee)
         IN  Ok(s2, <<s2["Employees"].rows[s2["Employees"].seq]>>)

\* The by-id handlers of the employees: the UPDATE fails on a duplicate Email.
read_employee(store, employee_id) ==
    IF employee_id \in Ids(store["Employees"])
    THEN Ok(store, <<store["Employees"].rows[employee_id]>>)
    ELSE HttpError(store, 404, "Employee not found")

update_employee(store, employee_id, employee) ==
    IF RowCount(store, "Employees", employee_id) = 0
    THEN HttpError(store, 404, "Employee not found")
    ELSE IF \E i \in Ids(store["Employees"]) \ {employee_id} :
                store["Employees"].rows[i].Email = employee.Email
    THEN Unhandled(store, "IntegrityError")
    ELSE Ok(SqlUpdate(store, "Employees", employee_id, employee),
            <<SetKey("Employees", employee, employee_id)>>)

delete_employee(store, employee_id) ==
    IF RowCount(store, "Employees", employee_id) = 0
    THEN HttpError(store, 404, "Employee not found")
    ELSE Response(SqlDelete(store, "Employees", employee_id), 200,
                  "Employee deleted successfully", <<>>)

-----------------------------------------------------------------------------
(* Inputs of the other entities.  Amounts are whole numbers of currency.   *)

Today == "2026-11-04"

ProductInputs ==
    { [ProductID |-> 0, Name |-> Tee, Description |-> <<"c", "o", "t">>,
       Price |-> 20, Stock |-> 50],
      [ProductID |-> 0, Name |-> Hat, Description |-> Wool,
       Price |-> 15, Stock |-> 3] }

OrderInputs ==
    { [OrderID |-> 0, CustomerID |-> 1, OrderDate |-> Today, TotalAmount |-> 40,
       ShippingAddress |-> "1 Main St", City |-> "Town", State |-> "ST",
       ZipCode |-> "00001", Country |-> "US", Status |-> "Pending",
       PaymentStatus |-> "Pending"],
      [OrderID |-> 0, CustomerID |-> 2, OrderDate |-> Today, TotalAmount |-> 15,
       ShippingAddress |-> "2 Side St", City |-> "Town", State |-> "ST",
       ZipCode |-> "00002", Country |-> "US", Status |-> "Shipped",
       PaymentStatus |-> "Paid"] }

OrderDetailInputs ==
    { [OrderDetailID |-> 0, OrderID |-> 1, ProductID |-> 1, Quantity |-> 2,
       Price |-> 20] }

ShippingInputs ==
    { [ShippingID |-> 0, OrderID |-> 1, EmployeeID |-> 1, ShippingDate |-> Today,
       ShippingMethod |-> "Courier", TrackingNumber |-> "TRK1"] }

InventoryLogInputs ==
    { [LogID |-> 0, ProductID |-> 1, EmployeeID |-> 1, ChangeType |-> "Restock",
       QuantityChange |-> 4, ChangeDate |-> Today] }

PaymentInputs ==
    { [PaymentID |-> 0, OrderID |-> 1, Amount |-> 40, PaymentDate |-> Today,
       PaymentMethod |-> "PayPal"] }

\* Identifiers tried in a path: present ones, and one far beyond any key.
IdInputs == {1, 2, 99999}

-----------------------------------------------------------------------------
(* Create, read, update and delete by id.  A handler that finds rowcount 0 *)
(* closes its connection without a commit, which leaves the store as it    *)
(* was.  The tables declare foreign keys, which SQLite does not enforce on *)
(* a connection that never sets PRAGMA foreign_keys.                       *)

create_product(store, product) ==
    LET s2 == SqlInsert(store, "Products", product)
    IN  Ok(s2, <<s2["Products"].rows[s2["Products"].seq]>>)

read_product(store, product_id) ==
    IF product_id \in Ids(store["Products"])
    THEN Ok(store, <<store["Products"].rows[product_id]>>)
    ELSE HttpError(store, 404, "Product not found")

\* Faulty variant: the update also writes an InventoryLog row for the new
\* Stock.
update_product_logged(store, product_id, product) ==
    IF RowCount(store, "Products", product_id) = 0
    THEN HttpError(store, 404, "Product not found")
    ELSE Ok(SqlInsert(SqlUpdate(store, "Products", product_id, product),
                      "InventoryLog",
                      [LogID |-> 0, ProductID |-> product_id, EmployeeID |-> 1,
                       ChangeType |-> "Adjustment",
                       QuantityChange |-> product.Stock, ChangeDate |-> Today]),
            <<SetKey("Products", product, product_id)>>)

update_product(store, product_id, product) ==
    IF RowCount(store, "Products", product_id) = 0
    THEN HttpError(store, 404, "Product not found")
    ELSE Ok(SqlUpdate(store, "Products", product_id, product),
            <<SetKey("Products", product, product_id)>>)

\* Faulty variant: the DELETE is committed and reported without the rowcount test.
delete_product_unchecked(store, product_id) ==
    Response(SqlDelete(store, "Products", product_id), 200,
             "Product deleted successfully", <<>>)

delete_product(store, product_id) ==
    IF RowCount(store, "Products", product_id) = 0
    THEN HttpError(store, 404, "Product not found")
    ELSE Response(SqlDelete(store, "Products", product_id), 200,
                  "Product deleted successfully", <<>>)

create_order(store, order) ==
    LET s2 == SqlInsert(store, "Orders", order)
    IN  Ok(s2, <<s2["Orders"].rows[s2["Orders"].seq]>>)

read_order(store, order_id) ==
    IF order_id \in Ids(store["Orders"])
    THEN Ok(store, <<store["Orders"].rows[order_id]>>)
    ELSE HttpError(store, 404, "Order not found")

update_order(store, order_id, order) ==
    IF RowCount(store, "Orders", order_id) = 0
    THEN HttpError(store, 404, "Order not found")
    ELSE Ok(SqlUpdate(store, "Orders", order_id, order),
            <<SetKey("Orders", order, order_id)>>)

delete_order(store, order_id) ==
    IF RowCount(store, "Orders", order_id) = 0
    THEN HttpError(store, 404, "Order not found")
    ELSE Response(SqlDelete(store, "Orders", order_id), 200,
                  "Order deleted successfully", <<>>)

create_order_detail(store, order_detail) ==
    LET s2 == SqlInsert(store, "OrderDetails", order_detail)
    IN  Ok(s2, <<s2["OrderDetails"].rows[s2["OrderDetails"].seq]>>)

read_order_detail(store, order_detail_id) ==
    IF order_detail_id \in Ids(store["OrderDetails"])
    THEN Ok(store, <<store["OrderDetails"].rows[order_detail_id]>>)
    ELSE HttpError(store, 404, "Order Detail not found")

update_order_detail(store, order_detail_id, order_detail) ==
    IF RowCount(store, "OrderDetails", order_detail_id) = 0
    THEN HttpError(store, 404, "Order Detail not found")
    ELSE Ok(SqlUpdate(store, "OrderDetails", order_detail_id, order_detail),
            <<SetKey("OrderDetails", order_detail, order_detail_id)>>)

delete_order_detail(store, order_detail_id) ==
    IF RowCount(store, "OrderDetails", order_detail_id) = 0
    THEN HttpError(store, 404, "Order Detail not found")
    ELSE Response(SqlDelete(store, "OrderDetails", order_detail_id), 200,
                  "Order Detail deleted successfully", <<>>)

create_shipping(store, shipping) ==
    LET s2 == SqlInsert(store, "Shipping", shipping)
    IN  Ok(s2, <<s2["Shipping"].rows[s2["Shipping"].seq]>>)

read_shipping_record(store, shipping_id) ==
    IF shipping_id \in Ids(store["Shipping"])
    THEN Ok(store, <<store["Shipping"].rows[shipping_id]>>)
    ELSE HttpError(store, 404, "Shipping record not found")

update_shipping(store, shipping_id, shipping) ==
    IF RowCount(store, "Shipping", shipping_id) = 0
    THEN HttpError(store, 404, "Shipping record not found")
    ELSE Ok(SqlUpdate(store, "Shipping", shipping_id, shipping),
            <<SetKey("Shipping", shipping, shipping_id)>>)

delete_shipping(store, shipping_id) ==
    IF RowCount(store, "Shipping", shipping_id) = 0
    THEN HttpError(store, 404, "Shipping record not found")
    ELSE Response(SqlDelete(store, "Shipping", shipping_id), 200,
                  "Shipping record deleted successfully", <<>>)

create_inventory_log(store, inventory_log) ==
    LET s2 == SqlInsert(store, "InventoryLog", inventory_log)
    IN  Ok(s2, <<s2["InventoryLog"].rows[s2["InventoryLog"].seq]>>)

read_inventory_log(store, log_id) ==
    IF log_id \in Ids(store["InventoryLog"])
    THEN Ok(store, <<store["InventoryLog"].rows[log_id]>>)
    ELSE HttpError(store, 404, "Inventory Log not found")

update_inventory_log(store, log_id, inventory_log) ==
    IF RowCount(store, "InventoryLog", log_id) = 0
    THEN HttpError(store, 404, "Inventory Log not found")
    ELSE Ok(SqlUpdate(store, "InventoryLog", log_id, inventory_log),
            <<SetKey("InventoryLog", inventory_log, log_id)>>)

delete_inventory_log(store, log_id) ==
    IF RowCount(store, "InventoryLog", log_id) = 0
    THEN HttpError(store, 404, "Inventory Log not found")
    ELSE Response(SqlDelete(store, "InventoryLog", log_id), 200,
                  "Inventory Log deleted successfully", <<>>)

create_payment(store, payment) ==
    LET s2 == SqlInsert(store, "Payments", payment)
    IN  Ok(s2, <<s2["Payments"].rows[s2["Payments"].seq]>>)

read_payment(store, payment_id) ==
    IF payment_id \in Ids(store["Payments"])
    THEN Ok(store, <<store["Payments"].rows[payment_id]>>)
    ELSE HttpError(store, 404, "Payment not found")

update_payment(store, payment_id, payment) ==
    IF RowCount(store, "Payments", payment_id) = 0
    THEN HttpError(store, 404, "Payment not found")
    ELSE Ok(SqlUpdate(store, "Payments", payment_id, payment),
            <<SetKey("Payments", payment, payment_id)>>)

delete_payment(store, payment_id) ==
    IF RowCount(store, "Payments", payment_id) = 0
    THEN HttpError(store, 404, "Payment not found")
    ELSE Response(SqlDelete(store, "Payments", payment_id), 200,
                  "Payment deleted successfully", <<>>)

-----------------------------------------------------------------------------
(* State *)

\* The workers that serve update_stock requests side by side.
Procs == {"w1", "w2"}

NoWriter == "none"

\* A worker between requests.
Idle ==
    [pc |-> "idle", product_id |-> 0, quantity_change |-> 0, employee_id |-> 0,
     work |-> <<>>, exc |-> "", status |-> 0, detail |-> ""]

\* No request is being served.
NoRequest ==
    [op |-> "none",
     credentials |-> [username |-> "", password |-> ""],
     id |-> 0, arg |-> <<>>, status |-> 0, detail |-> "", body |-> <<>>,
     conn |-> "closed"]

\* Nothing has been taken out of the store yet.
NoPast == [revoked |-> {}, deleted |-> {}]

\* The Email and Password pairs of the employees of a store.
Pairs(store) ==
    {[username |-> store["Employees"].rows[i].Email,
      password |-> store["Employees"].rows[i].Password] :
        i \in Ids(store["Employees"])}

\* The keys each table has assigned that are no row's key now.
Gaps(store) ==
    UNION {{<<t, i>> : i \in (1..store[t].seq) \ Ids(store[t])} : t \in Tables}

\* The record after a request has changed the store from old to new: the
\* pairs that were an employee's and are no employee's now, and the keys
\* of the rows deleted from each table.
Remember(old, new) ==
    [revoked |-> (past.revoked \cup Pairs(old)) \ Pairs(new),
     deleted |-> past.deleted \cup
                   UNION {{<<t, i>> : i \in Ids(old[t]) \ Ids(new[t])} :
                            t \in Tables}]

\* The service has started on a fresh database file.
Init ==
    /\ db = FreshStore
    /\ writer = NoWriter
    /\ proc = [p \in Procs |-> Idle]
    /\ last = NoRequest
    /\ past = NoPast

\* One request served from start to end while no other is being served: its
\* response r is held in last and the store it leaves committed becomes the
\* store.
Respond(op, credentials, id, arg, r) ==
    /\ last = NoRequest
    /\ db' = r.db
    /\ last' = [op |-> op, credentials |-> credentials,
                id |-> id, arg |-> arg, status |-> r.status,
                detail |-> r.detail, body |-> r.body, conn |-> r.conn]
    /\ past' = Remember(db, r.db)
    /\ UNCHANGED <<writer, proc>>

\* The response has gone to the client; the next request can be served.
Return ==
    /\ last # NoRequest
    /\ last' = NoRequest
    /\ UNCHANGED <<db, writer, proc, past>>

\* Rows ever inserted into the six tables of CrudNext.
CrudInserted ==
    db["Products"].seq + db["Orders"].seq + db["OrderDetails"].seq
      + db["Shipping"].seq + db["InventoryLog"].seq + db["Payments"].seq

-----------------------------------------------------------------------------
(* Requests on customers and employees *)

\* @app.post("/login")
login(store, employee) == Ok(store, <<employee>>)

Login ==
    \E c \in Credentials :
        Respond("login", c, 0, <<>>,
                Depends(db, c, login(db, CurrentEmployee(db, c))))

CreateCustomer ==
    /\ db["Customers"].seq < MaxCustomers
    /\ \E c \in Credentials, customer \in CustomerInputs :
        Respond("create_customer", c, 0, customer,
                Depends(db, c, create_customer(db, customer)))

CreateEmployee ==
    /\ db["Employees"].seq < MaxEmployees
    /\ \E c \in Credentials, employee \in EmployeeInputs :
        Respond("create_employee", c, 0, employee,
                Depends(db, c, create_employee(db, employee)))

ReadEmployee ==
    \E c \in Credentials, id \in IdInputs :
        Respond("read_employee", c, id, <<>>,
                Depends(db, c, read_employee(db, id)))

UpdateEmployee ==
    \E c \in Credentials, id \in IdInputs, employee \in EmployeeInputs :
        Respond("update_employee", c, id, employee,
                Depends(db, c, update_employee(db, id, employee)))

DeleteEmployee ==
    \E c \in Credentials, id \in IdInputs :
        Respond("delete_employee", c, id, <<>>,
                Depends(db, c, delete_employee(db, id)))

PeopleNext ==
    \/ Return
    \/ Login
    \/ CreateCustomer
    \/ CreateEmployee
    \/ ReadEmployee
    \/ UpdateEmployee
    \/ DeleteEmployee

\* The serial API on customers and employees.
SpecPeople == Init /\ [][PeopleNext]_vars

-----------------------------------------------------------------------------
(* Requests on the entities with get, update and delete by id *)

CreateProduct ==
    /\ CrudInserted < MaxInserts
    /\ \E c \in Credentials, product \in ProductInputs :
        Respond("create_product", c, 0, product,
                Depends(db, c, create_product(db, product)))

ReadProduct ==
    \E c \in Credentials, id \in IdInputs :
        Respond("read_product", c, id, <<>>,
                Depends(db, c, read_product(db, id)))

UpdateProduct ==
    \E c \in Credentials, id \in IdInputs, product \in ProductInputs :
        Respond("update_product", c, id, product,
                Depends(db, c, update_product(db, id, product)))

DeleteProduct ==
    \E c \in Credentials, id \in IdInputs :
        Respond("delete_product", c, id, <<>>,
                Depends(db, c, delete_product(db, id)))

CreateOrder ==
    /\ CrudInserted < MaxInserts
    /\ \E c \in Credentials, order \in OrderInputs :
        Respond("create_order", c, 0, order,
                Depends(db, c, create_order(db, order)))

ReadOrder ==
    \E c \in Credentials, id \in IdInputs :
        Respond("read_order", c, id, <<>>,
                Depends(db, c, read_order(db, id)))

UpdateOrder ==
    \E c \in Credentials, id \in IdInputs, order \in OrderInputs :
        Respond("update_order", c, id, order,
                Depends(db, c, update_order(db, id, order)))

DeleteOrder ==
    \E c \in Credentials, id \in IdInputs :
        Respond("delete_order", c, id, <<>>,
                Depends(db, c, delete_order(db, id)))

CreateOrderDetail ==
    /\ CrudInserted < MaxInserts
    /\ \E c \in Credentials, order_detail \in OrderDetailInputs :
        Respond("create_order_detail", c, 0, order_detail,
                Depends(db, c, create_order_detail(db, order_detail)))

ReadOrderDetail ==
    \E c \in Credentials, id \in IdInputs :
        Respond("read_order_detail", c, id, <<>>,
                Depends(db, c, read_order_detail(db, id)))

UpdateOrderDetail ==
    \E c \in Credentials, id \in IdInputs, order_detail \in OrderDetailInputs :
        Respond("update_order_detail", c, id, order_detail,
                Depends(db, c, update_order_detail(db, id, order_detail)))

DeleteOrderDetail ==
    \E c \in Credentials, id \in IdInputs :
        Respond("delete_order_detail", c, id, <<>>,
                Depends(db, c, delete_order_detail(db, id)))

CreateShipping ==
    /\ CrudInserted < MaxInserts
    /\ \E c \in Credentials, shipping \in ShippingInputs :
        Respond("create_shipping", c, 0, shipping,
                Depends(db, c, create_shipping(db, shipping)))

ReadShippingRecord ==
    \E c \in Credentials, id \in IdInputs :
        Respond("read_shipping_record", c, id, <<>>,
                Depends(db, c, read_shipping_record(db, id)))

UpdateShipping ==
    \E c \in Credentials, id \in IdInputs, shipping \in ShippingInputs :
        Respond("update_shipping", c, id, shipping,
                Depends(db, c, update_shipping(db, id, shipping)))

DeleteShipping ==
    \E c \in Credentials, id \in IdInputs :
        Respond("delete_shipping", c, id, <<>>,
                Depends(db, c, delete_shipping(db, id)))

CreateInventoryLog ==
    /\ CrudInserted < MaxInserts
    /\ \E c \in Credentials, inventory_log \in InventoryLogInputs :
        Respond("create_inventory_log", c, 0, inventory_log,
                Depends(db, c, create_inventory_log(db, inventory_log)))

ReadInventoryLog ==
    \E c \in Credentials, id \in IdInputs :
        Respond("read_inventory_log", c, id, <<>>,
                Depends(db, c, read_inventory_log(db, id)))

UpdateInventoryLog ==
    \E c \in Credentials, id \in IdInputs, inventory_log \in InventoryLogInputs :
        Respond("update_inventory_log", c, id, inventory_log,
                Depends(db, c, update_inventory_log(db, id, inventory_log)))

DeleteInventoryLog ==
    \E c \in Credentials, id \in IdInputs :
        Respond("delete_inventory_log", c, id, <<>>,
                Depends(db, c, delete_inventory_log(db, id)))

CreatePayment ==
    /\ CrudInserted < MaxInserts
    /\ \E c \in Credentials, payment \in PaymentInputs :
        Respond("create_payment", c, 0, payment,
                Depends(db, c, create_payment(db, payment)))

ReadPayment ==
    \E c \in Credentials, id \in IdInputs :
        Respond("read_payment", c, id, <<>>,
                Depends(db, c, read_payment(db, id)))

UpdatePayment ==
    \E c \in Credentials, id \in IdInputs, payment \in PaymentInputs :
        Respond("update_payment", c, id, payment,
                Depends(db, c, update_payment(db, id, payment)))

DeletePayment ==
    \E c \in Credentials, id \in IdInputs :
        Respond("delete_payment", c, id, <<>>,
                Depends(db, c, delete_payment(db, id)))

CrudNext ==
    \/ Return
    \/ CreateProduct
    \/ ReadProduct
    \/ UpdateProduct
    \/ DeleteProduct
    \/ CreateOrder
    \/ ReadOrder
    \/ UpdateOrder
    \/ DeleteOrder
    \/ CreateOrderDetail
    \/ ReadOrderDetail
    \/ UpdateOrderDetail
    \/ DeleteOrderDetail
    \/ CreateShipping
    \/ ReadShippingRecord
    \/ UpdateShipping
    \/ DeleteShipping
    \/ CreateInventoryLog
    \/ ReadInventoryLog
    \/ UpdateInventoryLog
    \/ DeleteInventoryLog
    \/ CreatePayment
    \/ ReadPayment
    \/ UpdatePayment
    \/ DeletePayment
    \/ ReadEmployee
    \/ UpdateEmployee
    \/ DeleteEmployee

\* The serial API on the entities with get, update and delete by id.
SpecCrud == Init /\ [][CrudNext]_vars

-----------------------------------------------------------------------------
(* Listing: SELECT * FROM tbl [WHERE ...] LIMIT ? OFFSET ?                  *)

\* ASCII letters compare without case in LIKE.
UpperToLower ==
    [A |-> "a", B |-> "b", C |-> "c", E |-> "e", H |-> "h", L |-> "l",
     N |-> "n", O |-> "o", T |-> "t", W |-> "w", X |-> "x"]

Lower(ch) == IF ch \in DOMAIN UpperToLower THEN UpperToLower[ch] ELSE ch

\* text LIKE pattern: % matches any run of characters, _ any one character.
RECURSIVE Like(_, _)
Like(text, pattern) ==
    IF pattern = <<>> THEN text = <<>>
    ELSE IF Head(pattern) = "%"
    THEN Like(text, Tail(pattern))
           \/ (text # <<>> /\ Like(Tail(text), pattern))
    ELSE /\ text # <<>>
         /\ Head(pattern) = "_" \/ Lower(Head(pattern)) = Lower(Head(text))
         /\ Like(Tail(text), Tail(pattern))

\* f'%{search}%'
SearchParam(search) == <<"%">> \o search \o <<"%">>

\* Faulty variant: LIMIT and OFFSET bound the wrong way round.
PaginateSwapped(rows, skip, limit) ==
    SubSeq(rows, limit + 1, Min({Len(rows), limit + skip}))

\* ... LIMIT limit OFFSET skip, on the rows the WHERE clause leaves
Paginate(rows, skip, limit) ==
    SubSeq(rows, skip + 1, Min({Len(rows), skip + limit}))

\* An Optional query parameter: <<>> is None, <<v>> is the value v.
None == <<>>

read_customers(store, skip, limit, search) ==
    LET all == SqlSelectAll(store, "Customers")
        rows == IF search # None
                THEN SelectSeq(all, LAMBDA r :
                        \/ Like(r.FirstName, SearchParam(search))
                        \/ Like(r.LastName, SearchParam(search))
                        \/ Like(r.Email, SearchParam(search)))
                ELSE all
    IN  Ok(store, Paginate(rows, skip, limit))

read_products(store, skip, limit, search) ==
    LET all == SqlSelectAll(store, "Products")
        rows == IF search # None
                THEN SelectSeq(all, LAMBDA r :
                        \/ Like(r.Name, SearchParam(search))
                        \/ Like(r.Description, SearchParam(search)))
                ELSE all
    IN  Ok(store, Paginate(rows, skip, limit))

read_orders(store, skip, limit, customer_id) ==
    LET all == SqlSelectAll(store, "Orders")
        rows == IF customer_id # None
                THEN SelectSeq(all, LAMBDA r : r.CustomerID = customer_id[1])
                ELSE all
    IN  Ok(store, Paginate(rows, skip, limit))

read_order_details(store, skip, limit, order_id) ==
    LET all == SqlSelectAll(store, "OrderDetails")
        rows == IF order_id # None
                THEN SelectSeq(all, LAMBDA r : r.OrderID = order_id[1])
                ELSE all
    IN  Ok(store, Paginate(rows, skip, limit))

read_employees(store, skip, limit) ==
    Ok(store, Paginate(SqlSelectAll(store, "Employees"), skip, limit))

read_shipping(store, skip, limit, order_id) ==
    LET all == SqlSelectAll(store, "Shipping")
        rows == IF order_id # None
                THEN SelectSeq(all, LAMBDA r : r.OrderID = order_id[1])
                ELSE all
    IN  Ok(store, Paginate(rows, skip, limit))

read_inventory_logs(store, skip, limit, product_id) ==
    LET all == SqlSelectAll(store, "InventoryLog")
        rows == IF product_id # None
                THEN SelectSeq(all, LAMBDA r : r.ProductID = product_id[1])
                ELSE all
    IN  Ok(store, Paginate(rows, skip, limit))

read_payments(store, skip, limit, order_id) ==
    LET all == SqlSelectAll(store, "Payments")
        rows == IF order_id # None
                THEN SelectSeq(all, LAMBDA r : r.OrderID = order_id[1])
                ELSE all
    IN  Ok(store, Paginate(rows, skip, limit))

\* skip: Query(0, ge=0)
SkipInputs == {0, 3, 20, 25, 30}

\* limit: Query(10, ge=1, le=100)
LimitInputs == {1, 10, LimitMax}

\* search: Optional[str] = Query(None, min_length=3)
SearchInputs == {None, <<"a", "n", "n">>, <<"W", "O", "O">>, <<"0", "_", "@">>}

\* customer_id, order_id, product_id: Optional[int] = Query(None)
KeyFilterInputs == {None, <<1>>, <<2>>}

ListCredentials == { c \in Credentials : c.password = "adminpassword" }

Digit == <<"0", "1", "2", "3", "4", "5", "6", "7", "8", "9">>

\* The rows that n requests of each create handler leave in the tables.
ListCustomer(i) ==
    [CustomerID |-> i, FirstName |-> IF i % 2 = 1 THEN Ann ELSE Bob,
     LastName |-> Lee,
     Email |-> <<"c", Digit[(i \div 10) + 1], Digit[(i % 10) + 1], "@", "x">>,
     PhoneNumber |-> "+15550000001"]

ListProduct(i) ==
    SetKey("Products",
           CHOOSE q \in ProductInputs : q.Name = IF i % 3 = 0 THEN Hat ELSE Tee, i)

ListOrder(i) ==
    SetKey("Orders",
           CHOOSE o \in OrderInputs : o.CustomerID = IF i % 3 = 1 THEN 1 ELSE 2, i)

ListOrderDetail(i) ==
    [OrderDetailID |-> i, OrderID |-> 1 + (i % 2), ProductID |-> 1,
     Quantity |-> 2, Price |-> 20]

ListShipping(i) ==
    [ShippingID |-> i, OrderID |-> 1 + (i % 4), EmployeeID |-> 1,
     ShippingDate |-> Today, ShippingMethod |-> "Courier",
     TrackingNumber |-> "TRK1"]

ListInventoryLog(i) ==
    [LogID |-> i, ProductID |-> 1 + (i % 2), EmployeeID |-> 1,
     ChangeType |-> "Restock", QuantityChange |-> 4, ChangeDate |-> Today]

ListPayment(i) ==
    [PaymentID |-> i, OrderID |-> 1 + (i % 5), Amount |-> 40,
     PaymentDate |-> Today, PaymentMethod |-> "PayPal"]

\* A store the API reaches: n rows created in each table (an employee beside
\* the default admin when n > 1) and, with gap, row 2 of the tables that have
\* a delete handler deleted again.
ListStore(n, gap) ==
    LET keep == IF gap THEN (1..n) \ {2} ELSE 1..n
    IN  [Customers    |-> [rows |-> [i \in 1..n |-> ListCustomer(i)], seq |-> n],
         Products     |-> [rows |-> [i \in keep |-> ListProduct(i)], seq |-> n],
         Orders       |-> [rows |-> [i \in keep |-> ListOrder(i)], seq |-> n],
         OrderDetails |-> [rows |-> [i \in keep |-> ListOrderDetail(i)], seq |-> n],
         Employees    |-> IF n > 1
                          THEN create_employee(FreshStore,
                                 CHOOSE e \in EmployeeInputs :
                                   e.Email = StaffEmail /\ IsAscii(e.Password)
                               ).db["Employees"]
                          ELSE FreshStore["Employees"],
         Shipping     |-> [rows |-> [i \in keep |-> ListShipping(i)], seq |-> n],
         InventoryLog |-> [rows |-> [i \in keep |-> ListInventoryLog(i)], seq |-> n],
         Payments     |-> [rows |-> [i \in keep |-> ListPayment(i)], seq |-> n]]

\* The service runs on a store with up to MaxListRows rows in each table.
InitList ==
    /\ \E n \in 0..MaxListRows, gap \in BOOLEAN : db = ListStore(n, gap)
    /\ writer = NoWriter
    /\ proc = [p \in Procs |-> Idle]
    /\ last = NoRequest
    /\ past = [NoPast EXCEPT !.deleted = Gaps(db)]

ListArg(skip, limit, filter) == [skip |-> skip, limit |-> limit, filter |-> filter]

ReadCustomers ==
    \E c \in ListCredentials, skip \in SkipInputs, limit \in LimitInputs,
       search \in SearchInputs :
        Respond("read_customers", c, 0, ListArg(skip, limit, search),
                Depends(db, c, read_customers(db, skip, limit, search)))

ReadProducts ==
    \E c \in ListCredentials, skip \in SkipInputs, limit \in LimitInputs,
       search \in SearchInputs :
        Respond("read_products", c, 0, ListArg(skip, limit, search),
                Depends(db, c, read_products(db, skip, limit, search)))

ReadOrders ==
    \E c \in ListCredentials, skip \in SkipInputs, limit \in LimitInputs,
       customer_id \in KeyFilterInputs :
        Respond("read_orders", c, 0, ListArg(skip, limit, customer_id),
                Depends(db, c, read_orders(db, skip, limit, customer_id)))

ReadOrderDetails ==
    \E c \in ListCredentials, skip \in SkipInputs, limit \in LimitInputs,
       order_id \in KeyFilterInputs :
        Respond("read_order_details", c, 0, ListArg(skip, limit, order_id),
                Depends(db, c, read_order_details(db, skip, limit, order_id)))

ReadEmployees ==
    \E c \in ListCredentials, skip \in SkipInputs, limit \in LimitInputs :
        Respond("read_employees", c, 0, ListArg(skip, limit, None),
                Depends(db, c, read_employees(db, skip, limit)))

ReadShipping ==
    \E c \in ListCredentials, skip \in SkipInputs, limit \in LimitInputs,
       order_id \in KeyFilterInputs :
        Respond("read_shipping", c, 0, ListArg(skip, limit, order_id),
                Depends(db, c, read_shipping(db, skip, limit, order_id)))

ReadInventoryLogs ==
    \E c \in ListCredentials, skip \in SkipInputs, limit \in LimitInputs,
       product_id \in KeyFilterInputs :
        Respond("read_inventory_logs", c, 0, ListArg(skip, limit, product_id),
                Depends(db, c, read_inventory_logs(db, skip, limit, product_id)))

ReadPayments ==
    \E c \in ListCredentials, skip \in SkipInputs, limit \in LimitInputs,
       order_id \in KeyFilterInputs :
        Respond("read_payments", c, 0, ListArg(skip, limit, order_id),
                Depends(db, c, read_payments(db, skip, limit, order_id)))

ListNext ==
    \/ Return
    \/ ReadCustomers
    \/ ReadProducts
    \/ ReadOrders
    \/ ReadOrderDetails
    \/ ReadEmployees
    \/ ReadShipping
    \/ ReadInventoryLogs
    \/ ReadPayments

\* The list handlers on stores of up to MaxListRows rows a table.
SpecList == InitList /\ [][ListNext]_vars

-----------------------------------------------------------------------------
(* update_stock, statement by statement.  Each worker has its own           *)
(* connection.  BEGIN TRANSACTION takes no lock; the UPDATE takes SQLite's  *)
(* write lock or, when another connection holds it until the busy timeout   *)
(* ends, raises "database is locked"; work is the store as the worker's     *)
(* open transaction sees it; COMMIT makes it the committed store.  Any      *)
(* statement may fail (fault), as on an I/O error.                          *)

\* quantity_change: int, unconstrained
Deltas == {-5, 2}

\* A store the API reaches from the fresh one: a second employee and two
\* products.
StockStore ==
    LET staff == CHOOSE e \in EmployeeInputs :
                    e.Email = StaffEmail /\ IsAscii(e.Password)
        tee == CHOOSE q \in ProductInputs : q.Name = Tee
        hat == CHOOSE q \in ProductInputs : q.Name = Hat
        s1 == create_employee(FreshStore, staff).db
        s2 == create_product(s1, tee).db
    IN  create_product(s2, hat).db

\* The service runs on a store with employees and products.
InitStock ==
    /\ db = StockStore
    /\ writer = NoWriter
    /\ proc = [p \in Procs |-> Idle]
    /\ last = NoRequest
    /\ past = NoPast

\* Requests in flight.
Busy == {p \in Procs : proc[p].pc # "idle"}

\* The audit row of an adjustment.
AuditRow(product_id, employee_id, quantity_change) ==
    [LogID |-> 0, ProductID |-> product_id, EmployeeID |-> employee_id,
     ChangeType |-> "Adjustment", QuantityChange |-> quantity_change,
     ChangeDate |-> Today]

\* Faulty variant: SET Stock = ? in place of SET Stock = Stock + ?
AddStockOverwrites(store, product_id, quantity_change) ==
    IF product_id \in Ids(store["Products"])
    THEN [store EXCEPT !["Products"].rows[product_id].Stock = quantity_change]
    ELSE store

\* UPDATE Products SET Stock = Stock + ? WHERE ProductID = ?
AddStock(store, product_id, quantity_change) ==
    IF product_id \in Ids(store["Products"])
    THEN [store EXCEPT !["Products"].rows[product_id].Stock = @ + quantity_change]
    ELSE store

\* Faulty variant: the UPDATE never waits for the write lock.
LockFreeAlways(p) == TRUE

\* Whether worker p's UPDATE gets the write lock.
LockFree(p) == writer \in {NoWriter, p}

\* The worker fails: the except clause runs next.
Raise(p, exc) == [proc EXCEPT ![p].pc = "except", ![p].exc = exc]

\* authenticate, get_db_connection, cursor.execute('BEGIN TRANSACTION')
StockBegin(p) ==
    /\ proc[p].pc = "idle"
    /\ db["InventoryLog"].seq + Cardinality(Busy) < MaxAdjustments
    /\ \E c \in Credentials, product_id \in IdInputs,
          quantity_change \in Deltas, fault \in BOOLEAN :
        LET a == authenticate(db, c)
            r == [Idle EXCEPT !.product_id = product_id,
                              !.quantity_change = quantity_change]
        IN  proc' = [proc EXCEPT ![p] =
                IF a.status # 200
                THEN [r EXCEPT !.pc = "done", !.status = a.status,
                               !.detail = a.detail]
                ELSE IF fault
                THEN [r EXCEPT !.pc = "except", !.exc = "BeginError",
                               !.employee_id = a.employee[1].EmployeeID]
                ELSE [r EXCEPT !.pc = "begun",
                               !.employee_id = a.employee[1].EmployeeID]]
    /\ UNCHANGED <<db, writer, last, past>>

\* Faulty variant: the UPDATE is committed as it runs, outside the transaction.
StockUpdateAutocommit(p) ==
    /\ proc[p].pc = "begun"
    /\ LockFree(p)
    /\ RowCount(db, "Products", proc[p].product_id) = 1
    /\ writer' = p
    /\ db' = AddStock(db, proc[p].product_id, proc[p].quantity_change)
    /\ proc' = [proc EXCEPT ![p].pc = "updated", ![p].work = db']
    /\ UNCHANGED <<last, past>>

\* The UPDATE and the test of cursor.rowcount
StockUpdate(p) ==
    /\ proc[p].pc = "begun"
    /\ \E fault \in BOOLEAN :
        IF ~LockFree(p)
        THEN /\ proc' = Raise(p, "database is locked")
             /\ UNCHANGED writer
        ELSE /\ writer' = p
             /\ proc' =
                  IF fault THEN Raise(p, "UpdateError")
                  ELSE IF RowCount(db, "Products", proc[p].product_id) = 0
                  THEN Raise(p, "404: Product not found")
                  ELSE [proc EXCEPT ![p].pc = "updated",
                          ![p].work = AddStock(db, proc[p].product_id,
                                               proc[p].quantity_change)]
    /\ UNCHANGED <<db, last, past>>

\* INSERT INTO InventoryLog ...
StockInsert(p) ==
    /\ proc[p].pc = "updated"
    /\ \E fault \in BOOLEAN :
        proc' = IF fault THEN Raise(p, "InsertError")
                ELSE [proc EXCEPT ![p].pc = "inserted",
                        ![p].work = SqlInsert(proc[p].work, "InventoryLog",
                                      AuditRow(proc[p].product_id,
                                               proc[p].employee_id,
                                               proc[p].quantity_change))]
    /\ UNCHANGED <<db, writer, last, past>>

\* cursor.execute('COMMIT'), conn.close(), return
StockCommit(p) ==
    /\ proc[p].pc = "inserted"
    /\ \E fault \in BOOLEAN :
        IF fault
        THEN /\ proc' = Raise(p, "CommitError")
             /\ UNCHANGED <<db, writer>>
        ELSE /\ db' = proc[p].work
             /\ writer' = NoWriter
             /\ proc' = [proc EXCEPT ![p].pc = "done", ![p].work = <<>>,
                            ![p].status = 200,
                            ![p].detail = "Stock updated successfully"]
    /\ UNCHANGED <<last, past>>

\* Faulty variant: the except clause ends the transaction with a commit.
StockRollbackCommits(p) ==
    /\ proc[p].pc = "except"
    /\ writer' = IF writer = p THEN NoWriter ELSE writer
    /\ db' = IF writer = p /\ proc[p].work # <<>> THEN proc[p].work ELSE db
    /\ proc' = [proc EXCEPT ![p].pc = "done", ![p].work = <<>>,
                   ![p].status = 500, ![p].detail = proc[p].exc]
    /\ UNCHANGED <<last, past>>

\* except Exception: cursor.execute('ROLLBACK'), raise HTTPException(500),
\* conn.close().  Without an open transaction the ROLLBACK itself raises;
\* either way the transaction's writes are gone and the answer is 500.
StockRollback(p) ==
    /\ proc[p].pc = "except"
    /\ writer' = IF writer = p THEN NoWriter ELSE writer
    /\ proc' = [proc EXCEPT ![p].pc = "done", ![p].work = <<>>,
                   ![p].status = 500,
                   ![p].detail = IF proc[p].exc = "BeginError"
                                 THEN "no transaction is active"
                                 ELSE proc[p].exc]
    /\ UNCHANGED <<db, last, past>>

\* The response has gone to the client.
StockReturn(p) ==
    /\ proc[p].pc = "done"
    /\ proc' = [proc EXCEPT ![p] = Idle]
    /\ UNCHANGED <<db, writer, last, past>>

Next ==
    \E p \in Procs :
        \/ StockBegin(p)
        \/ StockUpdate(p)
        \/ StockInsert(p)
        \/ StockCommit(p)
        \/ StockRollback(p)
        \/ StockReturn(p)

\* Concurrent stock adjustments on one store.
Spec == InitStock /\ [][Next]_vars

-----------------------------------------------------------------------------
(* Products written while a stock adjustment is in flight.  A handler's    *)
(* INSERT, UPDATE or DELETE needs the write lock: while an update_stock    *)
(* transaction holds it the statement raises 'database is locked', which   *)
(* no handler of the products catches.                                     *)

Write(store, r) ==
    IF writer = NoWriter THEN r ELSE Unhandled(store, "database is locked")

StockedCreateProduct ==
    /\ db["Products"].seq < MaxStocked
    /\ \E c \in ListCredentials, product \in ProductInputs :
        Respond("create_product", c, 0, product,
                Depends(db, c, Write(db, create_product(db, product))))

StockedUpdateProduct ==
    \E c \in ListCredentials, id \in IdInputs, product \in ProductInputs :
        Respond("update_product", c, id, product,
                Depends(db, c, Write(db, update_product(db, id, product))))

StockedDeleteProduct ==
    \E c \in ListCredentials, id \in IdInputs :
        Respond("delete_product", c, id, <<>>,
                Depends(db, c, Write(db, delete_product(db, id))))

StockedNext ==
    \/ Return
    \/ StockedCreateProduct
    \/ StockedUpdateProduct
    \/ StockedDeleteProduct
    \/ (db["InventoryLog"].seq < MaxStocked /\ StockBegin("w1"))
    \/ StockUpdate("w1")
    \/ StockInsert("w1")
    \/ StockCommit("w1")
    \/ StockRollback("w1")
    \/ StockReturn("w1")

\* One worker adjusts stock while the products are created, updated and
\* deleted, from the fresh store on.
SpecStocked == Init /\ [][StockedNext]_vars

-----------------------------------------------------------------------------
(* Properties of update_stock (Spec) *)

StockOf(store, product_id) == store["Products"].rows[product_id].Stock

\* The audit rows a step adds to the committed store.
NewAuditIds == Ids(db'["InventoryLog"]) \ Ids(db["InventoryLog"])

\* The step adds audit row i and moves the stock of that row's product by
\* the row's QuantityChange; nothing else in the store changes.
CommitsWithAudit(i) ==
    LET row == db'["InventoryLog"].rows[i]
    IN  /\ NewAuditIds = {i}
        /\ row.ChangeType = "Adjustment"
        /\ row.ProductID \in Ids(db["Products"])
        /\ Ids(db'["Products"]) = Ids(db["Products"])
        /\ \A q \in Ids(db["Products"]) :
              db'["Products"].rows[q] =
                IF q = row.ProductID
                THEN [db["Products"].rows[q] EXCEPT
                        !.Stock = @ + row.QuantityChange]
                ELSE db["Products"].rows[q]
        /\ \A j \in Ids(db["InventoryLog"]) :
              /\ j \in Ids(db'["InventoryLog"])
              /\ db'["InventoryLog"].rows[j] = db["InventoryLog"].rows[j]
        /\ \A t \in Tables \ {"Products", "InventoryLog"} : db'[t] = db[t]

\* C1: update_stock is all-or-nothing.  Every step leaves the committed
\* store as it was, or commits one whole adjustment: the stock change of one
\* product together with the one audit row that records it.  No step applies
\* a delta without its audit row, or writes an audit row without the delta.
C1_AllOrNothing ==
    [][ \/ db' = db
        \/ \E i \in NewAuditIds : CommitsWithAudit(i)
      ]_vars

\* C1 witness: an adjustment was committed and another request has failed at
\* its audit insert, after its UPDATE ran.
C1_Witness ==
    /\ db["InventoryLog"].seq >= 1
    /\ \E p \in Procs : proc[p].pc = "done" /\ proc[p].exc = "InsertError"

\* The step in which worker p's request ends with status 200.
Succeeds(p) ==
    /\ proc[p].pc # "done"
    /\ proc'[p].pc = "done"
    /\ proc'[p].status = 200

\* C2: a successful update_stock(p, d) by employee e on a product with stock
\* s leaves the stock at s + d and adds exactly one audit row, with
\* ProductID p, EmployeeID e, ChangeType 'Adjustment' and QuantityChange d;
\* nothing else in the store changes.
C2_SuccessAppliesDelta ==
    [][ \A p \in Procs :
          Succeeds(p) =>
            /\ proc[p].product_id \in Ids(db["Products"])
            /\ StockOf(db', proc[p].product_id)
                  = StockOf(db, proc[p].product_id) + proc[p].quantity_change
            /\ Cardinality(NewAuditIds) = 1
            /\ \A i \in NewAuditIds :
                  LET row == db'["InventoryLog"].rows[i]
                  IN  /\ row.ProductID = proc[p].product_id
                      /\ row.EmployeeID = proc[p].employee_id
                      /\ row.ChangeType = "Adjustment"
                      /\ row.QuantityChange = proc[p].quantity_change
            /\ \A i \in Ids(db["InventoryLog"]) :
                  /\ i \in Ids(db'["InventoryLog"])
                  /\ db'["InventoryLog"].rows[i] = db["InventoryLog"].rows[i]
            /\ \A t \in Tables \ {"Products", "InventoryLog"} : db'[t] = db[t]
            /\ \A q \in Ids(db["Products"]) \ {proc[p].product_id} :
                  db'["Products"].rows[q] = db["Products"].rows[q]
      ]_vars

\* C2 witness: the staff employee's adjustment of -5 on product 1 succeeded:
\* stock 50 became 45.
C2_Witness ==
    \E p \in Procs :
        /\ proc[p].pc = "done"
        /\ proc[p].status = 200
        /\ proc[p].employee_id = 2
        /\ proc[p].product_id = 1
        /\ proc[p].quantity_change = -5
        /\ StockOf(db, 1) = 45

\* What a failing statement or a busy store leaves in exc.
StatementFailures ==
    {"BeginError", "UpdateError", "InsertError", "CommitError",
     "database is locked"}

\* C3 (as claimed): an authenticated update_stock on a product id that is in
\* no Products row, with no statement failing, leaves the store unchanged
\* and answers 404 'Product not found'.
C3_NotFoundIs404 ==
    \A p \in Procs :
        ( /\ proc[p].pc = "done"
          /\ proc[p].employee_id # 0
          /\ proc[p].product_id \notin Ids(db["Products"])
          /\ proc[p].exc \notin StatementFailures )
        => /\ proc[p].status = 404
           /\ proc[p].detail = "Product not found"

\* The failures the claim C4 is about: after the stock UPDATE has run.
AfterUpdateFailures == {"InsertError", "CommitError"}

\* C4: when the audit insert or the commit fails, every step of that request
\* from the failure on leaves the committed store as it was (stock 50 stays
\* 50), the request only moves on to its rollback and its answer, the answer
\* is 500 with the write lock given back, and the request is not run again.
C4_FailureRollsBack ==
    [][ \A p \in Procs :
          (proc'[p].exc \in AfterUpdateFailures /\ proc'[p] # proc[p]) =>
            /\ db' = db
            /\ proc[p].pc \in {"updated", "inserted", "except"}
            /\ proc'[p].pc = IF proc[p].pc = "except" THEN "done" ELSE "except"
            /\ proc'[p].pc = "done" =>
                  /\ proc'[p].status = 500
                  /\ writer' # p
      ]_vars

\* C4 witness: stock 50, delta -5, the audit insert failed, the answer is
\* 500 and the stock is still 50.
C4_Witness ==
    \E p \in Procs :
        /\ proc[p].pc = "done"
        /\ proc[p].exc = "InsertError"
        /\ proc[p].status = 500
        /\ proc[p].product_id = 1
        /\ proc[p].quantity_change = -5
        /\ StockOf(db, 1) = 50

\* The sum of the audited quantity changes of a product.
AuditSum(store, product_id) ==
    LET log == SqlSelectAll(store, "InventoryLog")
    IN  SumSeq([i \in 1..Len(log) |->
                  IF log[i].ProductID = product_id
                  THEN log[i].QuantityChange ELSE 0])

\* Audit row i records the adjustment worker p asked for.
RecordsRequest(i, p) ==
    LET row == db["InventoryLog"].rows[i]
    IN  /\ row.ProductID = proc[p].product_id
        /\ row.EmployeeID = proc[p].employee_id
        /\ row.QuantityChange = proc[p].quantity_change

\* C5: concurrent adjustments lose no update.  Each product's stock is its
\* initial stock plus every committed delta, each recorded by its own audit
\* row: when both workers' requests have committed, two different audit rows
\* record them, so after d1 and d2 on one product its stock is s + d1 + d2.
C5_NoLostUpdate ==
    /\ \A product_id \in Ids(db["Products"]) :
          StockOf(db, product_id)
            = StockOf(StockStore, product_id) + AuditSum(db, product_id)
    /\ \A p, q \in Procs :
          ( /\ p # q
            /\ proc[p].pc = "done" /\ proc[p].status = 200
            /\ proc[q].pc = "done" /\ proc[q].status = 200 )
          => \E i, j \in Ids(db["InventoryLog"]) :
                i # j /\ RecordsRequest(i, p) /\ RecordsRequest(j, q)

\* C5 witness: two requests on product 1 that were in flight together have
\* both committed, -5 and +2 on stock 50 giving 47.
C5_Witness ==
    \E p, q \in Procs :
        /\ p # q
        /\ proc[p].pc = "done" /\ proc[p].status = 200
        /\ proc[q].pc = "done" /\ proc[q].status = 200
        /\ proc[p].product_id = 1 /\ proc[q].product_id = 1
        /\ proc[p].quantity_change = -5 /\ proc[q].quantity_change = 2
        /\ StockOf(db, 1) = 47
        /\ db["InventoryLog"].seq = 2

-----------------------------------------------------------------------------
(* Properties of the serial API (SpecPeople, SpecCrud, SpecList) *)

\* The request of a step is made by an employee authenticate accepts.
Authenticated == authenticate(db, last'.credentials).status = 200

\* The table a create request inserts into.
CreateTable == [create_customer |-> "Customers", create_employee |-> "Employees"]

\* C6 (as claimed): creating a Customer or an Employee whose Email is already
\* in its table is rejected with a client error (4xx) and leaves the table's
\* row count unchanged.
C6_DuplicateIsClientError ==
    [][ ( /\ last'.op \in DOMAIN CreateTable
          /\ Authenticated
          /\ EmailTaken(db, CreateTable[last'.op], last'.arg.Email) )
        => /\ last'.status \in 400..499
           /\ Cardinality(Ids(db'[CreateTable[last'.op]]))
                = Cardinality(Ids(db[CreateTable[last'.op]]))
      ]_vars

\* The table of each handler that takes an identifier in its path.
ByIdTable ==
    [read_product |-> "Products", update_product |-> "Products",
     delete_product |-> "Products",
     read_order |-> "Orders", update_order |-> "Orders",
     delete_order |-> "Orders",
     read_order_detail |-> "OrderDetails", update_order_detail |-> "OrderDetails",
     delete_order_detail |-> "OrderDetails",
     read_employee |-> "Employees", update_employee |-> "Employees",
     delete_employee |-> "Employees",
     read_shipping_record |-> "Shipping", update_shipping |-> "Shipping",
     delete_shipping |-> "Shipping",
     read_inventory_log |-> "InventoryLog", update_inventory_log |-> "InventoryLog",
     delete_inventory_log |-> "InventoryLog",
     read_payment |-> "Payments", update_payment |-> "Payments",
     delete_payment |-> "Payments"]

\* The not-found detail that names each entity.
NotFoundDetail ==
    [Products |-> "Product not found", Orders |-> "Order not found",
     OrderDetails |-> "Order Detail not found",
     Employees |-> "Employee not found",
     Shipping |-> "Shipping record not found",
     InventoryLog |-> "Inventory Log not found",
     Payments |-> "Payment not found"]

\* C7: get, update or delete of a Product, Order, OrderDetail, Employee,
\* Shipping, InventoryLog or Payment with an identifier that is not in its
\* table answers 404 with the detail naming the entity, and leaves every
\* table as it was.
C7_AbsentIdIsNotFound ==
    [][ ( /\ last'.op \in DOMAIN ByIdTable
          /\ Authenticated
          /\ last'.id \notin Ids(db[ByIdTable[last'.op]]) )
        => /\ last'.status = 404
           /\ last'.detail = NotFoundDetail[ByIdTable[last'.op]]
           /\ db' = db
      ]_vars

\* C7 witness: delete of product 99999 when the only product is 1 was
\* answered 404 and product 1 is still there.
C7_Witness ==
    /\ last.op = "delete_product"
    /\ last.id = 99999
    /\ last.status = 404
    /\ Ids(db["Products"]) = {1}

\* The table each list handler reads.
ListTable ==
    [read_customers |-> "Customers", read_products |-> "Products",
     read_orders |-> "Orders", read_order_details |-> "OrderDetails",
     read_employees |-> "Employees", read_shipping |-> "Shipping",
     read_inventory_logs |-> "InventoryLog", read_payments |-> "Payments"]

\* Whether a row of the table passes the request's search or foreign-key
\* filter.
Matches(op, row, filter) ==
    IF filter = None THEN TRUE
    ELSE CASE op = "read_customers" ->
                \/ Like(row.FirstName, SearchParam(filter))
                \/ Like(row.LastName, SearchParam(filter))
                \/ Like(row.Email, SearchParam(filter))
           [] op = "read_products" ->
                \/ Like(row.Name, SearchParam(filter))
                \/ Like(row.Description, SearchParam(filter))
           [] op = "read_orders" -> row.CustomerID = filter[1]
           [] op = "read_inventory_logs" -> row.ProductID = filter[1]
           [] op \in {"read_order_details", "read_shipping", "read_payments"} ->
                row.OrderID = filter[1]
           [] op = "read_employees" -> TRUE

\* The rows of the table that match the last request's filter.
MatchingRows ==
    LET t == db[ListTable[last.op]]
    IN  {t.rows[i] : i \in {j \in Ids(t) : Matches(last.op, t.rows[j], last.arg.filter)}}

MatchingPair(store, credentials) ==
    \E i \in Ids(store["Employees"]) :
        /\ store["Employees"].rows[i].Email = credentials.username
        /\ store["Employees"].rows[i].Password = credentials.password

\* C9 (as claimed): a request whose username and password are not the Email
\* and Password of one employee is rejected with 401 'Invalid credentials'
\* and changes no table; a request with a matching pair is not rejected.
C9_BadCredentialsAre401 ==
    [][ last'.op # "none" =>
          IF MatchingPair(db, last'.credentials)
          THEN last'.status # 401
          ELSE /\ last'.status = 401
               /\ last'.detail = "Invalid credentials"
               /\ db' = db
      ]_vars

\* A request on the employees, from its credentials to its response.
ServeEmployees(store, op, credentials, id, employee) ==
    Depends(store, credentials,
        CASE op = "login" -> login(store, CurrentEmployee(store, credentials))
          [] op = "create_employee" -> create_employee(store, employee)
          [] op = "read_employee" -> read_employee(store, id)
          [] op = "update_employee" -> update_employee(store, id, employee)
          [] op = "delete_employee" -> delete_employee(store, id))

EmployeeOps ==
    {"login", "create_employee", "read_employee", "update_employee",
     "delete_employee"}

\* The store with the Role of employee id replaced.
WithRole(store, id, role) == [store EXCEPT !["Employees"].rows[id].Role = role]

\* C10 (as claimed): the role decides the outcome of some operation.  For an
\* employee with Role 'Staff' there is a request whose status differs from
\* the status of the same request on the same store by the same employee
\* with another Role.
C10_RoleDecidesOutcome ==
    \A e \in Ids(db["Employees"]) :
        LET row == db["Employees"].rows[e]
            c == [username |-> row.Email, password |-> row.Password]
        IN  (row.Role = "Staff" /\ IsAscii(row.Password)) =>
              \E op \in EmployeeOps, id \in IdInputs, arg \in EmployeeInputs,
                 role \in Roles :
                  ServeEmployees(WithRole(db, e, role), op, c, id, arg).status
                    # ServeEmployees(db, op, c, id, arg).status

-----------------------------------------------------------------------------
(* Properties over the history of the serial API *)

\* C11 (as claimed): credentials that update_employee or delete_employee has
\* taken from an employee are rejected with 401 by every later request, which
\* leaves the store unchanged; credentials that are an employee's now are
\* not rejected with 401.
C11_StaleCredentialsAre401 ==
    [][ last'.op # "none" =>
          /\ last'.credentials \in past.revoked =>
                (last'.status = 401 /\ db' = db)
          /\ last'.credentials \in Pairs(db) => last'.status # 401
      ]_vars

\* Column col of every row of table tbl is the key of a row of table parent.
References(tbl, col, parent) ==
    \A i \in Ids(db[tbl]) : db[tbl].rows[i][col] \in Ids(db[parent])

\* C12 (as claimed): every foreign key of every row is the key of an
\* existing row of the table it references.
C12_ReferentialIntegrity ==
    /\ References("Orders", "CustomerID", "Customers")
    /\ References("OrderDetails", "OrderID", "Orders")
    /\ References("OrderDetails", "ProductID", "Products")
    /\ References("Shipping", "OrderID", "Orders")
    /\ References("Shipping", "EmployeeID", "Employees")
    /\ References("InventoryLog", "ProductID", "Products")
    /\ References("InventoryLog", "EmployeeID", "Employees")
    /\ References("Payments", "OrderID", "Orders")

-----------------------------------------------------------------------------
(* Properties of products and stock together (SpecStocked) *)

\* The step is the commit of an update_stock request of worker p.
StockCommitted(p) ==
    /\ proc[p].pc # "done"
    /\ proc'[p].pc = "done"
    /\ proc'[p].status = 200

-----------------------------------------------------------------------------
(* Properties of the handlers' connections *)

\* C14 (as claimed): the handler of every request has closed the connection
\* it opened by the time the request ends, whatever the response.
C14_ConnectionClosed == last.op # "none" => last.conn = "closed"

-----------------------------------------------------------------------------
(* Properties of the stock counter *)

\* C15 (as claimed): the Stock of every product is at least 0 in every
\* committed store.
C15_StockNonNegative ==
    \A i \in Ids(db["Products"]) : db["Products"].rows[i].Stock >= 0

-----------------------------------------------------------------------------
(* Create, get, update and delete of one entity in a row (SpecRound).  A   *)
(* behaviour works on one of the seven tables with handlers by id and      *)
(* leaves the other six as the fresh store has them.                       *)

RoundTables == Tables \ {"Customers"}

KeyColumn ==
    [Customers |-> "CustomerID", Products |-> "ProductID", Orders |-> "OrderID",
     OrderDetails |-> "OrderDetailID", Employees |-> "EmployeeID",
     Shipping |-> "ShippingID", InventoryLog |-> "LogID",
     Payments |-> "PaymentID"]

\* The handlers of each table, by what they do.
HandlerOf ==
    [Products |-> [create |-> "create_product", read |-> "read_product",
                   update |-> "update_product", delete |-> "delete_product"],
     Orders |-> [create |-> "create_order", read |-> "read_order",
                 update |-> "update_order", delete |-> "delete_order"],
     OrderDetails |-> [create |-> "create_order_detail",
                       read |-> "read_order_detail",
                       update |-> "update_order_detail",
                       delete |-> "delete_order_detail"],
     Employees |-> [create |-> "create_employee", read |-> "read_employee",
                    update |-> "update_employee", delete |-> "delete_employee"],
     Shipping |-> [create |-> "create_shipping", read |-> "read_shipping_record",
                   update |-> "update_shipping", delete |-> "delete_shipping"],
     InventoryLog |-> [create |-> "create_inventory_log",
                       read |-> "read_inventory_log",
                       update |-> "update_inventory_log",
                       delete |-> "delete_inventory_log"],
     Payments |-> [create |-> "create_payment", read |-> "read_payment",
                   update |-> "update_payment", delete |-> "delete_payment"]]

\* Request bodies: with the optional id field left out (0) and with an id
\* field the client made up.
BodyInputs(tbl) ==
    LET rows == CASE tbl = "Products" -> ProductInputs
                  [] tbl = "Orders" -> OrderInputs
                  [] tbl = "OrderDetails" -> OrderDetailInputs
                  [] tbl = "Employees" -> EmployeeInputs
                  [] tbl = "Shipping" -> ShippingInputs
                  [] tbl = "InventoryLog" -> InventoryLogInputs
                  [] tbl = "Payments" -> PaymentInputs
    IN  rows \cup {SetKey(tbl, r, 1) : r \in rows}

CreateBy(tbl, store, row) ==
    CASE tbl = "Products" -> create_product(store, row)
      [] tbl = "Orders" -> create_order(store, row)
      [] tbl = "OrderDetails" -> create_order_detail(store, row)
      [] tbl = "Employees" -> create_employee(store, row)
      [] tbl = "Shipping" -> create_shipping(store, row)
      [] tbl = "InventoryLog" -> create_inventory_log(store, row)
      [] tbl = "Payments" -> create_payment(store, row)

ReadBy(tbl, store, id) ==
    CASE tbl = "Products" -> read_product(store, id)
      [] tbl = "Orders" -> read_order(store, id)
      [] tbl = "OrderDetails" -> read_order_detail(store, id)
      [] tbl = "Employees" -> read_employee(store, id)
      [] tbl = "Shipping" -> read_shipping_record(store, id)
      [] tbl = "InventoryLog" -> read_inventory_log(store, id)
      [] tbl = "Payments" -> read_payment(store, id)

UpdateBy(tbl, store, id, row) ==
    CASE tbl = "Products" -> update_product(store, id, row)
      [] tbl = "Orders" -> update_order(store, id, row)
      [] tbl = "OrderDetails" -> update_order_detail(store, id, row)
      [] tbl = "Employees" -> update_employee(store, id, row)
      [] tbl = "Shipping" -> update_shipping(store, id, row)
      [] tbl = "InventoryLog" -> update_inventory_log(store, id, row)
      [] tbl = "Payments" -> update_payment(store, id, row)

DeleteBy(tbl, store, id) ==
    CASE tbl = "Products" -> delete_product(store, id)
      [] tbl = "Orders" -> delete_order(store, id)
      [] tbl = "OrderDetails" -> delete_order_detail(store, id)
      [] tbl = "Employees" -> delete_employee(store, id)
      [] tbl = "Shipping" -> delete_shipping(store, id)
      [] tbl = "InventoryLog" -> delete_inventory_log(store, id)
      [] tbl = "Payments" -> delete_payment(store, id)

\* The behaviour works on table tbl: the other tables are untouched.
Working(tbl) ==
    \A u \in RoundTables \ {tbl} : db[u] = FreshStore[u]

RoundCreate ==
    \E tbl \in RoundTables :
        /\ Working(tbl)
        /\ db[tbl].seq < FreshStore[tbl].seq + MaxRound
        /\ \E c \in Credentials, row \in BodyInputs(tbl) :
            Respond(HandlerOf[tbl].create, c, 0, row,
                    Depends(db, c, CreateBy(tbl, db, row)))

RoundRead ==
    \E tbl \in RoundTables :
        /\ Working(tbl)
        /\ \E c \in Credentials, id \in IdInputs :
            Respond(HandlerOf[tbl].read, c, id, <<>>,
                    Depends(db, c, ReadBy(tbl, db, id)))

RoundUpdate ==
    \E tbl \in RoundTables :
        /\ Working(tbl)
        /\ \E c \in Credentials, id \in IdInputs, row \in BodyInputs(tbl) :
            Respond(HandlerOf[tbl].update, c, id, row,
                    Depends(db, c, UpdateBy(tbl, db, id, row)))

RoundDelete ==
    \E tbl \in RoundTables :
        /\ Working(tbl)
        /\ \E c \in Credentials, id \in IdInputs :
            Respond(HandlerOf[tbl].delete, c, id, <<>>,
                    Depends(db, c, DeleteBy(tbl, db, id)))

RoundNext ==
    \/ Return
    \/ RoundCreate
    \/ RoundRead
    \/ RoundUpdate
    \/ RoundDelete

SpecRound == Init /\ [][RoundNext]_vars

\* The step answers 200 to the handler of this kind of table tbl.
Served(tbl, kind) ==
    /\ last = NoRequest
    /\ last'.op = HandlerOf[tbl][kind]
    /\ last'.status = 200

\* get of id on the store answers 200 with exactly this row.
Gets(tbl, store, id, row) ==
    /\ ReadBy(tbl, store, id).status = 200
    /\ ReadBy(tbl, store, id).body = <<row>>

\* C16: create answers with a key that no row of the table has or ever had,
\* whatever id the body carries, and get of that key returns the body's
\* fields; after update(i, r), get(i) returns r with key i; after delete(i),
\* get, update and delete of i answer 404.
C16_RoundTrip ==
    [][ \A tbl \in RoundTables :
          /\ Served(tbl, "create") =>
                LET i == last'.body[1][KeyColumn[tbl]]
                IN  /\ i \notin Ids(db[tbl])
                    /\ <<tbl, i>> \notin past.deleted
                    /\ CreateBy(tbl, db, SetKey(tbl, last'.arg, 0))
                          = CreateBy(tbl, db, last'.arg)
                    /\ last'.body = <<SetKey(tbl, last'.arg, i)>>
                    /\ Gets(tbl, db', i, SetKey(tbl, last'.arg, i))
          /\ Served(tbl, "update") =>
                /\ last'.body = <<SetKey(tbl, last'.arg, last'.id)>>
                /\ Gets(tbl, db', last'.id, SetKey(tbl, last'.arg, last'.id))
          /\ Served(tbl, "delete") =>
                /\ <<tbl, last'.id>> \in past'.deleted
                /\ ReadBy(tbl, db', last'.id).status = 404
                /\ DeleteBy(tbl, db', last'.id).status = 404
                /\ \A row \in BodyInputs(tbl) :
                     UpdateBy(tbl, db', last'.id, row).status = 404
      ]_vars

\* C16 witness: product 1 was created and deleted, and the next
\* create_product, sent with the id field 1, has answered with key 2.
C16_Witness ==
    /\ last.op = "create_product"
    /\ last.status = 200
    /\ last.arg.ProductID = 1
    /\ last.body[1].ProductID = 2
    /\ <<"Products", 1>> \in past.deleted
    /\ Ids(db["Products"]) = {2}

-----------------------------------------------------------------------------
(* get_dashboard_data beside the order handlers (SpecDash).  The handler   *)
(* runs four SELECT statements on one connection outside any transaction,  *)
(* so each statement reads the store as committed when it runs; a worker   *)
(* keeps its totals so far in work, with the store its COUNT of the orders *)
(* was taken from.                                                         *)

\* SELECT COUNT(*) FROM tbl
Count(store, tbl) == Cardinality(Ids(store[tbl]))

\* SELECT SUM(TotalAmount) FROM Orders ... or 0
Revenue(store) ==
    SumSeq([i \in 1..Len(SqlSelectAll(store, "Orders")) |->
               SqlSelectAll(store, "Orders")[i].TotalAmount])

\* authenticate, get_db_connection, SELECT COUNT(*) FROM Customers
DashCustomers(p) ==
    /\ proc[p].pc = "idle"
    /\ \E c \in ListCredentials :
        LET a == authenticate(db, c)
        IN  proc' = [proc EXCEPT ![p] =
                IF a.status # 200
                THEN [Idle EXCEPT !.pc = "done", !.status = a.status,
                                  !.detail = a.detail]
                ELSE [Idle EXCEPT !.pc = "products",
                        !.work = [total_customers |-> Count(db, "Customers")]]]
    /\ UNCHANGED <<db, writer, last, past>>

\* SELECT COUNT(*) FROM Products
DashProducts(p) ==
    /\ proc[p].pc = "products"
    /\ proc' = [proc EXCEPT ![p].pc = "orders",
                   ![p].work = [total_customers |-> proc[p].work.total_customers,
                                total_products |-> Count(db, "Products")]]
    /\ UNCHANGED <<db, writer, last, past>>

\* SELECT COUNT(*) FROM Orders
DashOrders(p) ==
    /\ proc[p].pc = "orders"
    /\ proc' = [proc EXCEPT ![p].pc = "revenue",
                   ![p].work = [total_customers |-> proc[p].work.total_customers,
                                total_products |-> proc[p].work.total_products,
                                total_orders |-> Count(db, "Orders"),
                                counted |-> db]]
    /\ UNCHANGED <<db, writer, last, past>>

\* SELECT SUM(TotalAmount) FROM Orders, conn.close(), return
DashRevenue(p) ==
    /\ proc[p].pc = "revenue"
    /\ proc' = [proc EXCEPT ![p].pc = "done", ![p].status = 200,
                   ![p].work = [total_customers |-> proc[p].work.total_customers,
                                total_products |-> proc[p].work.total_products,
                                total_orders |-> proc[p].work.total_orders,
                                total_revenue |-> Revenue(db),
                                counted |-> proc[p].work.counted]]
    /\ UNCHANGED <<db, writer, last, past>>

\* The response has gone to the client.
DashReturn(p) ==
    /\ proc[p].pc = "done"
    /\ proc' = [proc EXCEPT ![p] = Idle]
    /\ UNCHANGED <<db, writer, last, past>>

DashNext ==
    \/ Return
    \/ CreateOrder
    \/ UpdateOrder
    \/ DeleteOrder
    \/ DashCustomers("w1")
    \/ DashProducts("w1")
    \/ DashOrders("w1")
    \/ DashRevenue("w1")
    \/ DashReturn("w1")

\* One worker serves the dashboard while orders are created, updated and
\* deleted.
SpecDash == Init /\ [][DashNext]_vars

\* C17 (as claimed): the totals a dashboard request returns are those of one
\* store state: total_revenue is the sum of TotalAmount over the orders that
\* total_orders counted, and total_customers and total_products are the row
\* counts of the same store.
C17_DashboardSnapshot ==
    \A p \in Procs :
        (proc[p].pc = "done" /\ proc[p].status = 200) =>
            LET w == proc[p].work
            IN  /\ w.total_orders = Count(w.counted, "Orders")
                /\ w.total_revenue = Revenue(w.counted)
                /\ w.total_customers = Count(w.counted, "Customers")
                /\ w.total_products = Count(w.counted, "Products")

-----------------------------------------------------------------------------
(* The service started again on the store the requests have left           *)
(* (SpecStart).  create_tables changes nothing in a file that has the      *)
(* tables; create_default_admin runs at import, and an exception it raises *)
(* stops the service from starting, held here as status 500.               *)

HasAdmin(store) ==
    \E i \in Ids(store["Employees"]) : store["Employees"].rows[i].Role = "Admin"

create_default_admin(store) ==
    IF HasAdmin(store) THEN Ok(store, <<>>)
    ELSE IF EmailTaken(store, "Employees", DefaultAdmin.Email)
    THEN Unhandled(store, "IntegrityError")
    ELSE Ok(SqlInsert(store, "Employees", DefaultAdmin), <<>>)

Startup ==
    /\ create_default_admin(db).db["Employees"].seq <= MaxEmployees
    /\ Respond("create_default_admin", NoRequest.credentials, 0, <<>>,
               create_default_admin(db))

StartNext ==
    \/ Startup
    \/ Return
    \/ Login
    \/ CreateEmployee
    \/ ReadEmployee
    \/ UpdateEmployee
    \/ DeleteEmployee

SpecStart == Init /\ [][StartNext]_vars

\* C18 (as claimed): create_default_admin on any store the API reaches ends
\* without an error and leaves an employee with Role 'Admin'; when there is
\* one already it changes nothing.
C18_StartupLeavesAdmin ==
    [][ last'.op = "create_default_admin" =>
          /\ last'.status = 200
          /\ HasAdmin(db')
          /\ HasAdmin(db) => db' = db
      ]_vars

=============================================================================
